---- MODULE Spec2Model ----
(***************************************************************************)
(* The read path of logrange: the chunkfs file-descriptor pool (FdPool,    *)
(* frPool) shared by concurrent goroutines, and the construction of a      *)
(* cursor over the journals a tag expression resolves to.                  *)
(***************************************************************************)
EXTENDS Integers, Sequences, FiniteSets, TLC

\* ------------------------------------------------------------------ bounds
\* capacity handed to NewFdPool
maxSize == 2
\* client goroutines of the starvation scenario (LiveSpec)
NumProcs == 3
\* client goroutines calling every operation of the pool (Spec)
NumClients == 2
\* fReaders that exist (not yet closed) at a time
MaxReaders == 3
\* chunk ids (cid) known to the clients
NumCids == 2
\* file names a cid can be registered with
NumNames == 1
\* largest file offset / reader position
MaxOffset == 2
\* journals beyond cMaxSources that the tag expression can match
MaxExtra == 2
\* journals the cursor of the read scenario is built over
NumJournals == 2
\* records of a journal
MaxRecs == 2
\* largest timestamp of a record
MaxTs == 2
\* largest value of curSize explored (failed and raced calls leave it too high)
MaxCurSize == 3

\* const cMaxSources
cMaxSources == 50

\* const cPosJrnlSplit, cPosJrnlVal
cPosJrnlSplit == ":"
cPosJrnlVal == "="

Procs == 1..NumProcs
Clients == 1..NumClients
Readers == 1..MaxReaders
Cids == 1..NumCids
Names == 1..NumNames
Offsets == 0..MaxOffset

\* the goroutine started by NewFdPool
BgProc == 0
\* values of the mutex: nobody, a holder inside its critical section, or a
\* holder blocked for ever in a channel send
LockFree == -1
LockStuck == -2

\* absence of a group in fdp.frs, of a reader, of an error
NoGroup == [fname |-> 0, rdrs |-> <<>>]
NoReader == 0

\* math.MaxUint64, the distance getFree starts from, at the width of the
\* offsets explored
MaxUint64 == 65535
\* 0xFFFFFFFF, the Idx of tail, at the width of the indexes explored
MaxUint32 == 255

VARIABLES
    closed,      \* fdp.closed
    curSize,     \* fdp.curSize
    sem,         \* number of permits buffered in fdp.sem
    semClosed,   \* close(fdp.sem) has run
    cchanClosed, \* close(fdp.cchan) has run
    frs,         \* fdp.frs: cid -> frPool (NoGroup when absent)
    rdr,         \* the fReaders not yet closed: state, position, file name
    lock,        \* fdp.lock
    bgDone,      \* the background goroutine has left its loop
    panicked,    \* the process died in a panic
    pc,          \* position of each client goroutine
    loc,         \* locals of the call each client is in
    held,        \* the readers each client holds
    ret,         \* record of the call that returned in the last step
    cur          \* the cursor built by newCursor

poolVars == <<closed, curSize, sem, semClosed, cchanClosed, frs, rdr,
              lock, bgDone, panicked, pc, loc, held, ret>>
vars == <<closed, curSize, sem, semClosed, cchanClosed, frs, rdr,
          lock, bgDone, panicked, pc, loc, held, ret, cur>>

NoLoc == [cid |-> 0, fname |-> 0, fr |-> NoReader, sawClose |-> FALSE, delta |-> 0]
\* the record of the call that returned in the last step: what, the error,
\* the reader returned, and what the call saw and did
NoRet == [op |-> "none", err |-> "nil", fr |-> NoReader, cid |-> 0, off |-> 0,
          sawClose |-> FALSE, nfree |-> 0, delta |-> 0, cnt |-> 0, nbusy |-> 0]
\* a reader that does not exist: never created, or closed
NoRdr == [state |-> "none", open |-> FALSE, pos |-> 0, fname |-> 0]
\* cursor.State
NoState == [Id |-> 0, Sources |-> 0, Where |-> 0, Pos |-> <<>>]
\* the record of the last call on the cursor: what, the error, the journal and
\* timestamp of the event returned, and whether an iterator held a file reader
\* when the call began
NoOut == [op |-> "none", err |-> "nil", j |-> 0, ts |-> 0, had |-> FALSE]
\* the outcome of newCursor: n journals matched, nsrcs were returned by the tag
\* index, calls to GetOrCreate, journal iterators and Mixers created; and the
\* Cursor it returns: state, it (the root iterator), jDescs (per journal its
\* records j and its iterator it), with the record of the last call and, for
\* a cursor constructed at head and not repositioned or committed since
\* (fromHead), the events it has delivered: <<journal, index, ts>>; last is
\* the State the latest commit returned and the positions it collected
NoLast == [state |-> NoState, mark |-> <<>>]
NoCur == [status |-> "none", err |-> "nil", n |-> 0, nsrcs |-> 0, calls |-> 0,
          iters |-> 0, mixers |-> 0,
          state |-> NoState, it |-> <<>>, jDescs |-> <<>>,
          out |-> NoOut, log |-> <<>>, fromHead |-> FALSE, last |-> NoLast]

\* ------------------------------------------------------------ fReader
\* fReader.isFree: the state flag is frStateFree
isFree(r) == rdr[r].state = "free"

\* fReader.distance: the unsigned distance |pos - offset| from the reader's
\* position to offset
distance(r, offset) ==
    IF rdr[r].pos >= offset THEN rdr[r].pos - offset ELSE offset - rdr[r].pos

\* newFReader: a reader on fname, free, its file open at position 0
newFReader(fname) ==
    [state |-> "free", open |-> TRUE, pos |-> 0, fname |-> fname]

\* fReader.makeBusy: compare-and-swap free -> busy
makeBusy(fr) == IF fr.state = "free" THEN [fr EXCEPT !.state = "busy"] ELSE fr

\* fReader.Close: a free reader is closed at once, a busy one is marked closing
\* and closed by the release of its holder
FrClose(fr) ==
    IF fr.state = "free"
    THEN NoRdr
    ELSE IF fr.state = "busy"
    THEN [fr EXCEPT !.state = "closing"]
    ELSE fr

\* fReader.close: the file is closed whatever the state
FrCloseNow(fr) == NoRdr

\* ------------------------------------------------------------- frPool
\* newFRPool
newFRPool(fname) == [fname |-> fname, rdrs |-> <<>>]

\* getFree with the isFree test of line 220 left out
getFreeCandidateAny(r) == rdr[r].state \in {"free", "busy"}

\* getFree, line 220: the readers the loop looks at
getFreeCandidate(r) == isFree(r)

\* getFree with <= for the < of line 226
getFreeCloserOrEqual(d, dist) == d <= dist

\* getFree, line 226: a later free reader replaces the choice
getFreeCloser(d, dist) == d < dist

\* getFree, lines 217-236: the index chosen by the loop (0: none)
RECURSIVE getFreeLoop(_, _, _, _, _)
getFreeLoop(rdrs, offset, idx, ridx, dist) ==
    IF idx > Len(rdrs) THEN ridx
    ELSE IF getFreeCandidate(rdrs[idx])
    THEN IF ridx = 0
         THEN getFreeLoop(rdrs, offset, idx + 1, idx, distance(rdrs[idx], offset))
         ELSE LET d == distance(rdrs[idx], offset)
              IN  IF getFreeCloser(d, dist)
                  THEN getFreeLoop(rdrs, offset, idx + 1, idx, d)
                  ELSE getFreeLoop(rdrs, offset, idx + 1, ridx, dist)
    ELSE getFreeLoop(rdrs, offset, idx + 1, ridx, dist)

\* getFree: the chosen reader (NoReader: none); the caller marks it busy
getFree(rdrs, offset) ==
    LET ridx == getFreeLoop(rdrs, offset, 1, 0, MaxUint64)
    IN  IF ridx = 0 THEN NoReader ELSE rdrs[ridx]

\* cleanUp with the test of line 247 left out
cleanUpSkipsNone(all, r) == FALSE

\* cleanUp, line 247: the readers the loop leaves alone
cleanUpSkips(all, r) == ~all /\ ~isFree(r)

\* cleanUp, lines 245-256: swap-remove every reader not skipped; cl collects
\* the readers Close() was called on
RECURSIVE cleanUpLoop(_, _, _, _)
cleanUpLoop(rdrs, all, i, cl) ==
    IF i > Len(rdrs) THEN [rdrs |-> rdrs, cl |-> cl]
    ELSE IF cleanUpSkips(all, rdrs[i])
    THEN cleanUpLoop(rdrs, all, i + 1, cl)
    ELSE LET n == Len(rdrs)
             moved == [rdrs EXCEPT ![i] = rdrs[n]]
         IN  cleanUpLoop(SubSeq(moved, 1, n - 1), all, i, cl \cup {rdrs[i]})

cleanUp(rdrs, all) == cleanUpLoop(rdrs, all, 1, {})

\* ------------------------------------------------------------- FdPool
Registered(c) == frs[c] # NoGroup

\* freeSem: nothing once closed; else cnt sends on the channel, which block
\* when it is full and panic when it is closed
freeSem(cnt, closedNow) ==
    IF closedNow # 0 \/ cnt = 0
    THEN [sem |-> sem, stuck |-> FALSE, panic |-> FALSE]
    ELSE IF semClosed
    THEN [sem |-> sem, stuck |-> FALSE, panic |-> TRUE]
    ELSE IF sem + cnt > maxSize
    THEN [sem |-> maxSize, stuck |-> TRUE, panic |-> FALSE]
    ELSE [sem |-> sem + cnt, stuck |-> FALSE, panic |-> FALSE]

\* clean: cleanUp on every group, curSize and the permits adjusted by the
\* count, the groups deleted when all; base is curSize on entry
clean(all, closedNow, base) ==
    LET res == [c \in Cids |-> IF Registered(c) THEN cleanUp(frs[c].rdrs, all)
                               ELSE [rdrs |-> <<>>, cl |-> {}]]
        cl == UNION {res[c].cl : c \in Cids}
        fs == freeSem(Cardinality(cl), closedNow)
    IN  [frs |-> [c \in Cids |-> IF all \/ ~Registered(c) THEN NoGroup
                                 ELSE [frs[c] EXCEPT !.rdrs = res[c].rdrs]],
         rdr |-> [r \in Readers |-> IF r \in cl THEN FrClose(rdr[r]) ELSE rdr[r]],
         curSize |-> base - Cardinality(cl),
         cnt |-> Cardinality(cl),
         sem |-> fs.sem, stuck |-> fs.stuck, panic |-> fs.panic,
         rmw |-> \E c \in Cids : Registered(c)]

\* the mutex after a critical section of p: still held while the section's
\* plain read-modify-write of curSize can race an atomic add, held for ever
\* when a send blocked
LockAfter(p, c) == IF c.stuck THEN LockStuck ELSE IF c.rmw THEN p ELSE LockFree

\* a goroutine can enter a critical section
CanLock == lock = LockFree /\ ~panicked
\* a goroutine is outside its own critical section
Running(p) == lock # p /\ ~panicked

\* atomic.AddInt32(&curSize, -1) outside the mutex: applied, or overwritten by
\* the plain curSize -= cnt of a critical section it races
AddRaced == IF lock \in Procs \cup {BgProc} THEN {curSize - 1, curSize} ELSE {curSize - 1}

Ret(op, err) == [NoRet EXCEPT !.op = op, !.err = err]

\* NewFdPool: an empty map, maxSize permits, the cleaner started
Init ==
    /\ closed = 0
    /\ curSize = 0
    /\ sem = maxSize
    /\ semClosed = FALSE
    /\ cchanClosed = FALSE
    /\ frs = [c \in Cids |-> NoGroup]
    /\ rdr = [r \in Readers |-> NoRdr]
    /\ lock = LockFree
    /\ bgDone = FALSE
    /\ panicked = FALSE
    /\ pc = [p \in Procs |-> "idle"]
    /\ loc = [p \in Procs |-> NoLoc]
    /\ held = [p \in Procs |-> {}]
    /\ ret = NoRet
    /\ cur = NoCur

\* sync.Mutex.Unlock at the end of a critical section that ran clean
Unlock ==
    /\ lock \in Procs \cup {BgProc}
    /\ ~panicked
    /\ lock' = LockFree
    /\ ret' = NoRet
    /\ UNCHANGED <<closed, curSize, sem, semClosed, cchanClosed, frs, rdr,
                   bgDone, panicked, pc, loc, held, cur>>

\* register, lines 67-77
Register(p, c, n) ==
    /\ pc[p] = "idle"
    /\ CanLock
    /\ IF Registered(c)
       THEN /\ ret' = [Ret("register", "duplicate") EXCEPT !.cid = c]
            /\ UNCHANGED frs
       ELSE /\ frs' = [frs EXCEPT ![c] = newFRPool(n)]
            /\ ret' = [Ret("register", "nil") EXCEPT !.cid = c]
    /\ UNCHANGED <<closed, curSize, sem, semClosed, cchanClosed, rdr, lock,
                   bgDone, panicked, pc, loc, held, cur>>

\* acquire, lines 84-106: the critical section
AcquireEnter(p, c, off) ==
    /\ pc[p] = "idle"
    /\ CanLock
    /\ IF closed # 0 \/ ~Registered(c)
       THEN /\ ret' = [Ret("acquire", "ErrWrongState") EXCEPT
                          !.cid = c, !.sawClose = closed # 0]
            /\ UNCHANGED <<curSize, sem, frs, rdr, lock, panicked, pc, loc, held>>
       ELSE LET fr == getFree(frs[c].rdrs, off)
                nfree == Cardinality({i \in 1..Len(frs[c].rdrs) :
                                        rdr[frs[c].rdrs[i]].state = "free"})
            IN  IF fr # NoReader
                THEN /\ rdr' = [rdr EXCEPT ![fr] = makeBusy(@)]
                     /\ held' = [held EXCEPT ![p] = @ \cup {fr}]
                     /\ ret' = [Ret("acquire", "nil") EXCEPT
                                   !.cid = c, !.off = off, !.fr = fr, !.nfree = nfree]
                     /\ UNCHANGED <<curSize, sem, frs, lock, panicked, pc, loc>>
                ELSE LET cs == curSize + 1
                         cl == clean(FALSE, closed, cs)
                     IN  /\ curSize < MaxCurSize
                         /\ pc' = [pc EXCEPT ![p] = "acq_select"]
                         /\ IF cs >= maxSize
                            THEN /\ curSize' = cl.curSize
                                 /\ frs' = cl.frs
                                 /\ rdr' = cl.rdr
                                 /\ sem' = cl.sem
                                 /\ panicked' = cl.panic
                                 /\ lock' = LockAfter(p, cl)
                                 /\ loc' = [loc EXCEPT ![p] = [NoLoc EXCEPT
                                              !.cid = c, !.fname = frs[c].fname,
                                              !.delta = 1 - cl.cnt]]
                            ELSE /\ curSize' = cs
                                 /\ loc' = [loc EXCEPT ![p] = [NoLoc EXCEPT
                                              !.cid = c, !.fname = frs[c].fname,
                                              !.delta = 1]]
                                 /\ UNCHANGED <<frs, rdr, sem, panicked, lock>>
                         /\ ret' = NoRet
                         /\ UNCHANGED <<held>>
    /\ UNCHANGED <<closed, semClosed, cchanClosed, bgDone, cur>>

\* acquire, lines 109-111: the context is cancelled and select takes ctx.Done()
AcquireCtxDone(p) ==
    /\ pc[p] = "acq_select"
    /\ Running(p)
    /\ \E v \in AddRaced :
         /\ curSize' = v
         /\ ret' = [Ret("acquire", "ctx") EXCEPT
                       !.cid = loc[p].cid, !.sawClose = loc[p].sawClose,
                       !.delta = loc[p].delta + (v - curSize)]
    /\ pc' = [pc EXCEPT ![p] = "idle"]
    /\ loc' = [loc EXCEPT ![p] = NoLoc]
    /\ UNCHANGED <<closed, sem, semClosed, cchanClosed, frs, rdr, lock,
                   bgDone, panicked, held, cur>>

\* acquire, lines 112-118: select receives from sem; a closed channel delivers
\* the permits it still buffers before it reports !ok
AcquireSem(p) ==
    /\ pc[p] = "acq_select"
    /\ Running(p)
    /\ IF sem > 0
       THEN /\ sem' = sem - 1
            /\ pc' = [pc EXCEPT ![p] = "acq_open"]
            /\ ret' = NoRet
            /\ UNCHANGED <<curSize, loc>>
       ELSE /\ semClosed
            /\ \E v \in AddRaced :
                 /\ curSize' = v
                 /\ ret' = [Ret("acquire", "ErrWrongState") EXCEPT
                               !.cid = loc[p].cid, !.sawClose = loc[p].sawClose,
                               !.delta = loc[p].delta + (v - curSize)]
            /\ pc' = [pc EXCEPT ![p] = "idle"]
            /\ loc' = [loc EXCEPT ![p] = NoLoc]
            /\ UNCHANGED sem
    /\ UNCHANGED <<closed, semClosed, cchanClosed, frs, rdr, lock,
                   bgDone, panicked, held, cur>>

\* createAndUseFreader, lines 189-192: newFReader opens the file
CreateOpen(p) ==
    /\ pc[p] = "acq_open"
    /\ Running(p)
    /\ \E r \in Readers :
         /\ rdr[r] = NoRdr
         /\ \A q \in Readers : q < r => rdr[q] # NoRdr
         /\ rdr' = [rdr EXCEPT ![r] = newFReader(loc[p].fname)]
         /\ loc' = [loc EXCEPT ![p].fr = r]
    /\ pc' = [pc EXCEPT ![p] = "acq_add"]
    /\ ret' = NoRet
    /\ UNCHANGED <<closed, curSize, sem, semClosed, cchanClosed, frs, lock,
                   bgDone, panicked, held, cur>>

\* createAndUseFreader, lines 189-192: newFReader fails and its error is returned
CreateOpenFails(p) ==
    /\ pc[p] = "acq_open"
    /\ Running(p)
    /\ ret' = [Ret("acquire", "open") EXCEPT
                  !.cid = loc[p].cid, !.sawClose = loc[p].sawClose,
                  !.delta = loc[p].delta]
    /\ pc' = [pc EXCEPT ![p] = "idle"]
    /\ loc' = [loc EXCEPT ![p] = NoLoc]
    /\ UNCHANGED <<closed, curSize, sem, semClosed, cchanClosed, frs, rdr,
                   lock, bgDone, panicked, held, cur>>

\* createAndUseFreader, lines 194-205: the reader joins its group, or is closed
\* when the cid is gone
CreateAdd(p) ==
    /\ pc[p] = "acq_add"
    /\ CanLock
    /\ LET c == loc[p].cid
           fr == loc[p].fr
       IN  IF ~Registered(c)
           THEN /\ rdr' = [rdr EXCEPT ![fr] = FrClose(@)]
                /\ ret' = [Ret("acquire", "ErrWrongState") EXCEPT
                              !.cid = c, !.sawClose = loc[p].sawClose,
                              !.delta = loc[p].delta]
                /\ UNCHANGED <<frs, held>>
           ELSE /\ frs' = [frs EXCEPT ![c].rdrs = Append(@, fr)]
                /\ rdr' = [rdr EXCEPT ![fr] = makeBusy(@)]
                /\ held' = [held EXCEPT ![p] = @ \cup {fr}]
                /\ ret' = [Ret("acquire", "nil") EXCEPT
                              !.cid = c, !.fr = fr, !.sawClose = loc[p].sawClose,
                              !.delta = loc[p].delta]
    /\ pc' = [pc EXCEPT ![p] = "idle"]
    /\ loc' = [loc EXCEPT ![p] = NoLoc]
    /\ UNCHANGED <<closed, curSize, sem, semClosed, cchanClosed, lock,
                   bgDone, panicked, cur>>

\* release, line 124: makeFree, a compare-and-swap busy -> free outside the mutex
ReleaseCall(p, fr) ==
    /\ pc[p] = "idle"
    /\ fr \in held[p]
    /\ Running(p)
    /\ held' = [held EXCEPT ![p] = @ \ {fr}]
    /\ loc' = [loc EXCEPT ![p] = [NoLoc EXCEPT !.fr = fr]]
    /\ IF rdr[fr].state = "busy"
       THEN /\ rdr' = [rdr EXCEPT ![fr].state = "free"]
            /\ pc' = [pc EXCEPT ![p] = "rel_load"]
       ELSE /\ pc' = [pc EXCEPT ![p] = "rel_close"]
            /\ UNCHANGED rdr
    /\ ret' = NoRet
    /\ UNCHANGED <<closed, curSize, sem, semClosed, cchanClosed, frs, lock,
                   bgDone, panicked, cur>>

\* release, lines 126-129: the reader was not busy and is closed
ReleaseClose(p) ==
    /\ pc[p] = "rel_close"
    /\ CanLock
    /\ rdr' = [rdr EXCEPT ![loc[p].fr] = FrCloseNow(@)]
    /\ ret' = [Ret("release", "nil") EXCEPT !.fr = loc[p].fr]
    /\ pc' = [pc EXCEPT ![p] = "idle"]
    /\ loc' = [loc EXCEPT ![p] = NoLoc]
    /\ UNCHANGED <<closed, curSize, sem, semClosed, cchanClosed, frs, lock,
                   bgDone, panicked, held, cur>>

\* release, line 132: the atomic load of curSize decides whether to clean
ReleaseLoad(p) ==
    /\ pc[p] = "rel_load"
    /\ Running(p)
    /\ IF curSize >= maxSize
       THEN /\ pc' = [pc EXCEPT ![p] = "rel_clean"]
            /\ ret' = NoRet
            /\ UNCHANGED <<loc>>
       ELSE /\ pc' = [pc EXCEPT ![p] = "idle"]
            /\ ret' = [Ret("release", "nil") EXCEPT !.fr = loc[p].fr]
            /\ loc' = [loc EXCEPT ![p] = NoLoc]
    /\ UNCHANGED <<closed, curSize, sem, semClosed, cchanClosed, frs, rdr,
                   lock, bgDone, panicked, held, cur>>

\* release, lines 133-135: clean(false) under the mutex
ReleaseClean(p) ==
    /\ pc[p] = "rel_clean"
    /\ CanLock
    /\ LET cl == clean(FALSE, closed, curSize)
       IN  /\ curSize' = cl.curSize
           /\ frs' = cl.frs
           /\ rdr' = cl.rdr
           /\ sem' = cl.sem
           /\ panicked' = cl.panic
           /\ lock' = LockAfter(p, cl)
           /\ ret' = [Ret("release", "nil") EXCEPT !.fr = loc[p].fr, !.cnt = cl.cnt]
    /\ pc' = [pc EXCEPT ![p] = "idle"]
    /\ loc' = [loc EXCEPT ![p] = NoLoc]
    /\ UNCHANGED <<closed, semClosed, cchanClosed, bgDone, held, cur>>

\* releaseAllByCid, lines 139-150
ReleaseAllByCid(p, c) ==
    /\ pc[p] = "idle"
    /\ CanLock
    /\ IF Registered(c)
       THEN LET res == cleanUp(frs[c].rdrs, TRUE)
                cnt == Cardinality(res.cl)
                fs == freeSem(cnt, closed)
            IN  /\ rdr' = [r \in Readers |-> IF r \in res.cl THEN FrClose(rdr[r])
                                             ELSE rdr[r]]
                /\ curSize' = curSize - cnt
                /\ sem' = fs.sem
                /\ panicked' = fs.panic
                /\ lock' = IF fs.stuck THEN LockStuck ELSE p
                /\ frs' = [frs EXCEPT ![c] = NoGroup]
                /\ ret' = [Ret("releaseAllByCid", "nil") EXCEPT
                              !.cid = c, !.cnt = cnt,
                              !.nbusy = Cardinality({r \in res.cl : rdr[r].state = "busy"})]
       ELSE /\ ret' = [Ret("releaseAllByCid", "nil") EXCEPT !.cid = c]
            /\ UNCHANGED <<rdr, curSize, sem, panicked, lock, frs>>
    /\ UNCHANGED <<closed, semClosed, cchanClosed, bgDone, pc, loc, held, cur>>

\* Close, lines 154-156: the check of closed, outside the mutex
CloseCall(p) ==
    /\ pc[p] = "idle"
    /\ Running(p)
    /\ IF closed # 0
       THEN /\ ret' = Ret("Close", "ErrWrongState")
            /\ UNCHANGED pc
       ELSE /\ pc' = [pc EXCEPT ![p] = "close_lock"]
            /\ ret' = NoRet
    /\ UNCHANGED <<closed, curSize, sem, semClosed, cchanClosed, frs, rdr,
                   lock, bgDone, panicked, loc, held, cur>>

\* Close, lines 158-165: closed is set, every group cleaned and deleted, both
\* channels closed; closing a closed channel panics
CloseLocked(p) ==
    /\ pc[p] = "close_lock"
    /\ CanLock
    /\ LET cl == clean(TRUE, 1, curSize)
       IN  /\ closed' = 1
           /\ curSize' = cl.curSize
           /\ frs' = cl.frs
           /\ rdr' = cl.rdr
           /\ sem' = cl.sem
           /\ panicked' = (cchanClosed \/ semClosed)
           /\ lock' = LockAfter(p, cl)
    /\ cchanClosed' = TRUE
    /\ semClosed' = TRUE
    /\ ret' = Ret("Close", IF cchanClosed \/ semClosed THEN "panic" ELSE "nil")
    /\ pc' = [pc EXCEPT ![p] = "idle"]
    /\ loc' = [q \in Procs |->
                 IF pc[q] \in {"acq_select", "acq_open", "acq_add"}
                 THEN [loc[q] EXCEPT !.sawClose = TRUE] ELSE loc[q]]
    /\ UNCHANGED <<bgDone, held, cur>>

\* NewFdPool, lines 56-60: the timer fires and the goroutine runs clean(false)
BgTick ==
    /\ ~bgDone
    /\ CanLock
    /\ LET cl == clean(FALSE, closed, curSize)
       IN  /\ curSize' = cl.curSize
           /\ frs' = cl.frs
           /\ rdr' = cl.rdr
           /\ sem' = cl.sem
           /\ panicked' = cl.panic
           /\ lock' = LockAfter(BgProc, cl)
    /\ ret' = NoRet
    /\ UNCHANGED <<closed, semClosed, cchanClosed, bgDone, pc, loc,
                   held, cur>>

\* NewFdPool, lines 52-60: cchan is closed, the goroutine runs clean(true) and
\* leaves its loop
BgLast ==
    /\ ~bgDone
    /\ cchanClosed
    /\ CanLock
    /\ LET cl == clean(TRUE, closed, curSize)
       IN  /\ curSize' = cl.curSize
           /\ frs' = cl.frs
           /\ rdr' = cl.rdr
           /\ sem' = cl.sem
           /\ panicked' = cl.panic
           /\ lock' = LockAfter(BgProc, cl)
    /\ bgDone' = TRUE
    /\ ret' = NoRet
    /\ UNCHANGED <<closed, semClosed, cchanClosed, pc, loc, held,
                   cur>>

\* the holder of a reader reads or seeks: the reader's position moves
UseReader(p, fr, pos) ==
    /\ pc[p] = "idle"
    /\ fr \in held[p]
    /\ Running(p)
    /\ rdr[fr].open
    /\ rdr[fr].pos # pos
    /\ rdr' = [rdr EXCEPT ![fr].pos = pos]
    /\ ret' = NoRet
    /\ UNCHANGED <<closed, curSize, sem, semClosed, cchanClosed, frs, lock,
                   bgDone, panicked, pc, loc, held, cur>>

\* every operation of the pool, called by the goroutines of P
PoolNext(P) ==
    \/ Unlock
    \/ BgTick
    \/ BgLast
    \/ \E p \in P, c \in Cids, n \in Names : Register(p, c, n)
    \/ \E p \in P, c \in Cids, off \in Offsets : AcquireEnter(p, c, off)
    \/ \E p \in P : AcquireCtxDone(p)
    \/ \E p \in P : AcquireSem(p)
    \/ \E p \in P : CreateOpen(p)
    \/ \E p \in P : CreateOpenFails(p)
    \/ \E p \in P : CreateAdd(p)
    \/ \E p \in P, fr \in Readers : ReleaseCall(p, fr)
    \/ \E p \in P : ReleaseClose(p)
    \/ \E p \in P : ReleaseLoad(p)
    \/ \E p \in P : ReleaseClean(p)
    \/ \E p \in P, c \in Cids : ReleaseAllByCid(p, c)
    \/ \E p \in P : CloseCall(p)
    \/ \E p \in P : CloseLocked(p)

Next == PoolNext(Clients)

Spec == Init /\ [][Next]_vars

\* ----------------------------------------------------------- selection
\* a pool in use: k readers of cid 1 listed, free or held busy by client 1,
\* each at some position, the permits and curSize accounting for them
InitSel ==
    \E k \in 0..maxSize :
      \E st \in [1..k -> {"free", "busy"}], ps \in [1..k -> Offsets] :
        /\ k <= MaxReaders
        /\ rdr = [r \in Readers |->
                    IF r <= k THEN [state |-> st[r], open |-> TRUE, pos |-> ps[r],
                                    fname |-> 1]
                    ELSE NoRdr]
        /\ frs = [c \in Cids |-> IF c = 1 THEN [fname |-> 1, rdrs |-> [i \in 1..k |-> i]]
                                 ELSE NoGroup]
        /\ held = [p \in Procs |-> IF p = 1 THEN {r \in 1..k : st[r] = "busy"} ELSE {}]
        /\ sem = maxSize - k
        /\ curSize = k
        /\ closed = 0
        /\ semClosed = FALSE
        /\ cchanClosed = FALSE
        /\ lock = LockFree
        /\ bgDone = FALSE
        /\ panicked = FALSE
        /\ pc = [p \in Procs |-> "idle"]
        /\ loc = [p \in Procs |-> NoLoc]
        /\ ret = NoRet
        /\ cur = NoCur

\* clients acquire, read and release the readers of a registered cid
SelNext ==
    \/ Unlock
    \/ \E p \in Clients, c \in Cids, off \in Offsets : AcquireEnter(p, c, off)
    \/ \E p \in Clients : AcquireCtxDone(p)
    \/ \E p \in Clients : AcquireSem(p)
    \/ \E p \in Clients : CreateOpen(p)
    \/ \E p \in Clients : CreateOpenFails(p)
    \/ \E p \in Clients : CreateAdd(p)
    \/ \E p \in Clients, fr \in Readers : ReleaseCall(p, fr)
    \/ \E p \in Clients : ReleaseLoad(p)
    \/ \E p \in Clients : ReleaseClean(p)
    \/ \E p \in Clients, fr \in Readers, pos \in Offsets : UseReader(p, fr, pos)

SelSpec == InitSel /\ [][SelNext]_vars

\* ------------------------------------------------------------ starvation
\* the pool after register(1, 1)
LiveInit ==
    /\ closed = 0
    /\ curSize = 0
    /\ sem = maxSize
    /\ semClosed = FALSE
    /\ cchanClosed = FALSE
    /\ frs = [c \in Cids |-> IF c = 1 THEN newFRPool(1) ELSE NoGroup]
    /\ rdr = [r \in Readers |-> NoRdr]
    /\ lock = LockFree
    /\ bgDone = FALSE
    /\ panicked = FALSE
    /\ pc = [p \in Procs |-> "idle"]
    /\ loc = [p \in Procs |-> NoLoc]
    /\ held = [p \in Procs |-> {}]
    /\ ret = NoRet
    /\ cur = NoCur

\* a permit is in the channel while a client is parked in the select of
\* acquire: the runtime hands a sent value to a parked receiver at once
PermitReady == sem > 0 /\ \E p \in Procs : pc[p] = "acq_select" /\ Running(p)

\* three clients that never cancel acquire and release while the cleaner runs;
\* nothing else happens between the sending of a permit and its receipt by a
\* parked client
LiveNext ==
    \/ \E p \in Procs : AcquireSem(p)
    \/ ~PermitReady /\ Unlock
    \/ ~PermitReady /\ BgTick
    \/ ~PermitReady /\ \E p \in Procs, off \in Offsets : AcquireEnter(p, 1, off)
    \/ ~PermitReady /\ \E p \in Procs : CreateOpen(p)
    \/ ~PermitReady /\ \E p \in Procs : CreateOpenFails(p)
    \/ ~PermitReady /\ \E p \in Procs : CreateAdd(p)
    \/ ~PermitReady /\ \E p \in Procs, fr \in Readers : ReleaseCall(p, fr)
    \/ ~PermitReady /\ \E p \in Procs : ReleaseLoad(p)
    \/ ~PermitReady /\ \E p \in Procs : ReleaseClean(p)

\* the scheduler runs every goroutine that can take a step, a goroutine that
\* finds the mutex free again and again locks it, the runtime hands a permit to
\* a receiver that is ready again and again, the timer of the cleaner fires,
\* and a client releases the readers it holds; whether a client calls acquire
\* is up to it
LiveFair ==
    /\ WF_vars(Unlock)
    /\ SF_vars(BgTick)
    /\ \A p \in Procs :
         /\ SF_vars(AcquireSem(p))
         /\ WF_vars(CreateOpen(p) \/ CreateOpenFails(p))
         /\ SF_vars(CreateAdd(p))
         /\ WF_vars(\E fr \in Readers : ReleaseCall(p, fr))
         /\ WF_vars(ReleaseLoad(p))
         /\ SF_vars(ReleaseClean(p))

LiveSpec == LiveInit /\ [][LiveNext]_vars /\ LiveFair

\* ------------------------------------------------------- re-registration
\* a file name besides those of Names, for a cid registered anew
OtherName == NumNames + 1
FileNames == Names \cup {OtherName}

\* clients acquire and release the readers of cid 1 while the cid is released
\* and registered again, under the same or another file name
NameNext ==
    \/ Unlock
    \/ \E p \in Clients, n \in FileNames : Register(p, 1, n)
    \/ \E p \in Clients : AcquireEnter(p, 1, 0)
    \/ \E p \in Clients : AcquireSem(p)
    \/ \E p \in Clients : CreateOpen(p)
    \/ \E p \in Clients : CreateAdd(p)
    \/ \E p \in Clients, fr \in Readers : ReleaseCall(p, fr)
    \/ \E p \in Clients : ReleaseClose(p)
    \/ \E p \in Clients : ReleaseLoad(p)
    \/ \E p \in Clients : ReleaseClean(p)
    \/ \E p \in Clients : ReleaseAllByCid(p, 1)

NameSpec == Init /\ [][NameNext]_vars

\* --------------------------------------------------------------- strings
\* a string is the sequence of its characters
StrHead == <<"h", "e", "a", "d">>
StrTail == <<"t", "a", "i", "l">>

\* strings.ToLower, on the letters that occur
LowerOf(ch) ==
    CASE ch = "H" -> "h" [] ch = "E" -> "e" [] ch = "A" -> "a" [] ch = "D" -> "d"
      [] ch = "T" -> "t" [] ch = "I" -> "i" [] ch = "L" -> "l" [] OTHER -> ch

ToLower(str) == [i \in 1..Len(str) |-> LowerOf(str[i])]

\* strings.Split(str, sep) for a separator of one character
RECURSIVE Split(_, _)
Split(str, sep) ==
    IF \E i \in 1..Len(str) : str[i] = sep
    THEN LET i == CHOOSE k \in 1..Len(str) :
                      str[k] = sep /\ \A m \in 1..(k - 1) : str[m] # sep
         IN  <<SubSeq(str, 1, i - 1)>> \o Split(SubSeq(str, i + 1, Len(str)), sep)
    ELSE <<str>>

\* ----------------------------------------------------------- journal.Pos
\* the hexadecimal digits of the chunk ids and indexes that occur; "F" stands
\* for the all-ones value of either width
HexChars == <<"0", "1", "2", "3", "4", "5", "6", "7">>

\* journal.Pos{CId, Idx} of head and of tail
PosHead == <<0, 0>>
PosTail == <<MaxUint64, MaxUint32>>

\* journal.Pos.String: hex(CId) "." hex(Idx)
PosString(pos) ==
    << IF pos[1] = MaxUint64 THEN "F" ELSE HexChars[pos[1] + 1], ".",
       IF pos[2] = MaxUint32 THEN "F" ELSE HexChars[pos[2] + 1] >>

IsHex(ch) == ch = "F" \/ \E i \in 1..Len(HexChars) : HexChars[i] = ch

UnHex(ch, ones) ==
    IF ch = "F" THEN ones ELSE (CHOOSE i \in 1..Len(HexChars) : HexChars[i] = ch) - 1

\* journal.ParsePos: the position a string written by Pos.String stands for, or
\* an error
ParsePos(str) ==
    IF Len(str) = 3 /\ str[2] = "." /\ IsHex(str[1]) /\ IsHex(str[3])
    THEN [err |-> FALSE, pos |-> <<UnHex(str[1], MaxUint64), UnHex(str[3], MaxUint32)>>]
    ELSE [err |-> TRUE, pos |-> PosHead]

\* ------------------------------------------------------- journal.Iterator
\* the journal ids the tag index names the journals by, and one it does not know
JournalIds == <<"p", "q", "r", "s">>
JName(j) == <<JournalIds[j]>>
UnknownId == <<"z">>

Journals == 1..NumJournals

\* jrnl.Iterator(): an iterator at head that holds no file reader
newIterator == [pos |-> PosHead, held |-> FALSE]

\* the position Get settles on: the records of a journal are in chunk 0, a
\* position past the last record (tail is one) is the first unwritten slot
jiSettled(jd) ==
    IF jd.it.pos[1] = 0 /\ jd.it.pos[2] <= Len(jd.j) THEN jd.it.pos
    ELSE <<0, Len(jd.j)>>

\* Iterator.Get: settles the position and reads the record there with a file
\* reader of the pool
jiGet(jd) == [jd EXCEPT !.it = [pos |-> jiSettled(jd), held |-> TRUE]]

\* Iterator.Get returns a record, not io.EOF
jiHasRecord(jd) == jiSettled(jd)[2] < Len(jd.j)

\* Iterator.Next
jiNext(jd) ==
    IF jiHasRecord(jd) THEN [jd EXCEPT !.it.pos = <<0, jiSettled(jd)[2] + 1>>]
    ELSE jd

\* Iterator.SetPos
jiSetPos(jd, pos) == [jd EXCEPT !.it.pos = pos]

\* Iterator.Release: the file reader goes back to the pool, the position stays
jiRelease(jd) == [jd EXCEPT !.it.held = FALSE]

\* ------------------------------------------------------------ model.Mixer
\* an iterator is a leaf <<j>>, the wrapped iterator of journal j, or a Mixer
\* <<left, right>>
\* newCursor with mxs[i] for the mxs[i+1] of line 120
mixPairSame(mxs, i) == <<mxs[i + 1], mxs[i + 1]>>

\* newCursor, lines 119-120: m.Init(model.GetEarliest, mxs[i], mxs[i+1])
mixPair(mxs, i) == <<mxs[i + 1], mxs[i + 2]>>

\* newCursor, lines 118-122: the inner loop, mxs[i/2] = m
RECURSIVE mixInner(_, _)
mixInner(mxs, i) ==
    IF i < Len(mxs) - 1
    THEN mixInner([mxs EXCEPT ![i \div 2 + 1] = mixPair(mxs, i)], i + 2)
    ELSE mxs

\* newCursor with the odd case of lines 123-125 left out
mixShrinkEven(mxs) == SubSeq(mxs, 1, Len(mxs) \div 2)

\* newCursor, lines 123-128: an unpaired last iterator moves up, the list shrinks
mixShrink(mxs) ==
    IF Len(mxs) % 2 = 1
    THEN SubSeq([mxs EXCEPT ![Len(mxs) \div 2 + 1] = mxs[Len(mxs)]],
                1, Len(mxs) \div 2 + 1)
    ELSE SubSeq(mxs, 1, Len(mxs) \div 2)

\* newCursor, lines 117-131: the outer loop and it = mxs[0]
RECURSIVE mixOuter(_)
mixOuter(mxs) ==
    IF Len(mxs) > 1 THEN mixOuter(mixShrink(mixInner(mxs, 0))) ELSE mxs[1]

\* newCursor, lines 89-132: the root iterator over len journals
rootIterator(len) ==
    IF len = 1 THEN <<1>> ELSE mixOuter([i \in 1..len |-> <<i>>])

\* the journal whose record Mixer.Get returns (0: io.EOF): both children are
\* peeked, the earlier timestamp wins, the first child on a tie, and a child
\* at EOF leaves the other one
RECURSIVE Winner(_, _)
Winner(it, jds) ==
    IF Len(it) = 1
    THEN IF jiHasRecord(jds[it[1]]) THEN it[1] ELSE 0
    ELSE LET a == Winner(it[1], jds)
             b == Winner(it[2], jds)
         IN  IF a = 0 THEN b
             ELSE IF b = 0 THEN a
             ELSE IF jds[a].j[jiSettled(jds[a])[2] + 1]
                       <= jds[b].j[jiSettled(jds[b])[2] + 1]
             THEN a ELSE b

\* the journals under an iterator
RECURSIVE Leaves(_)
Leaves(it) == IF Len(it) = 1 THEN <<it[1]>> ELSE Leaves(it[1]) \o Leaves(it[2])

\* ---------------------------------------------------------------- newCursor
\* tindex.GetJournals(se, limit, false): the journals matching the expression,
\* at most limit of them
GetJournals(n, limit) == IF n > limit THEN limit ELSE n

\* newCursor, line 78
noSources(len) == len = 0

\* newCursor with the cap of line 82 off by one
tooManySourcesOffByOne(len) == len > cMaxSources + 1

\* newCursor, line 82
tooManySources(len) == len > cMaxSources

\* newCursor, lines 117-129: the Mixers created while the list of len iterators
\* is halved down to one
RECURSIVE mixLoop(_, _)
mixLoop(len, mixers) ==
    IF len <= 1 THEN mixers
    ELSE mixLoop(IF len % 2 = 1 THEN len \div 2 + 1 ELSE len \div 2,
                 mixers + len \div 2)

\* newCursor, lines 66-143, constructing one cursor, for n journals matching state.Sources: parseErr and
\* tidxErr are the failures of lql.ParseExpr and GetJournals, failAt the
\* GetOrCreate call that fails (0: none), posErr the failure of applyPos
NewCursor(n, parseErr, tidxErr, failAt, posErr) ==
    LET len == GetJournals(n, cMaxSources + 1)
        res == [NoCur EXCEPT !.status = "err", !.n = n]
    IN  /\ failAt <= len
        /\ cur' =
             IF parseErr THEN [res EXCEPT !.err = "parse"]
             ELSE IF tidxErr THEN [res EXCEPT !.err = "journals"]
             ELSE IF noSources(len) THEN [res EXCEPT !.err = "NoSources"]
             ELSE IF tooManySources(len)
             THEN [res EXCEPT !.err = "TooManySources", !.nsrcs = len]
             ELSE IF failAt > 0
             THEN [res EXCEPT !.err = "GetOrCreate", !.nsrcs = len,
                              !.calls = failAt, !.iters = failAt - 1]
             ELSE [res EXCEPT !.status = IF posErr THEN "err" ELSE "ok",
                              !.err = IF posErr THEN "pos" ELSE "nil",
                              !.nsrcs = len, !.calls = len, !.iters = len,
                              !.mixers = IF len = 1 THEN 0 ELSE mixLoop(len, 0),
                              !.it = rootIterator(len)]
        /\ UNCHANGED poolVars

CursorNext ==
    /\ cur.status = "none"
    /\ \E n \in 0..(cMaxSources + MaxExtra), parseErr \in BOOLEAN, tidxErr \in BOOLEAN,
          failAt \in 0..cMaxSources, posErr \in BOOLEAN :
           NewCursor(n, parseErr, tidxErr, failAt, posErr)

CursorSpec == Init /\ [][CursorNext]_vars

\* ---------------------------------------------------------------- Cursor
\* lql: the predicate of a Where expression on an event; 0 stands for the
\* empty expression, which every event satisfies, w > 0 for "ts >= w"
WhereAccepts(where, ts) == ts >= where

\* applyCornerPos, lines 224-238
applyCornerPos(pstr, jds) ==
    LET ps == ToLower(pstr)
        p == IF ps = StrTail THEN PosTail ELSE PosHead
    IN  IF ps # StrTail /\ ps # StrHead /\ ps # <<>>
        THEN [ok |-> FALSE, jDescs |-> jds]
        ELSE [ok |-> TRUE, jDescs |-> [j \in DOMAIN jds |-> jiSetPos(jds[j], p)]]

\* applyStatePos, lines 241-256: the entries <<journal id, position>> of the
\* values parsed so far, or the first error
RECURSIVE parseVals(_, _, _)
parseVals(vals, i, m) ==
    IF i > Len(vals) THEN [err |-> "nil", m |-> m]
    ELSE LET kv == Split(vals[i], cPosJrnlVal)
         IN  IF Len(kv) # 2 THEN [err |-> "parse", m |-> m]
             ELSE LET r == ParsePos(kv[2])
                  IN  IF r.err THEN [err |-> "parse", m |-> m]
                      ELSE parseVals(vals, i + 1, Append(m, <<kv[1], r.pos>>))

\* the map m of applyStatePos: a later entry of a journal id replaces an earlier
MapHas(m, id) == \E i \in 1..Len(m) : m[i][1] = id
MapGet(m, id) ==
    m[CHOOSE i \in 1..Len(m) :
        m[i][1] = id /\ \A k \in (i + 1)..Len(m) : m[k][1] # id][2]

\* applyStatePos with the lookup of line 260 taken for found
setPosAlways(m, jd, j) ==
    jiSetPos(jd, IF MapHas(m, JName(j)) THEN MapGet(m, JName(j)) ELSE m[1][2])

\* applyStatePos, lines 259-263: SetPos on the journals of the cursor in m
setPosIfKnown(m, jd, j) ==
    IF MapHas(m, JName(j)) THEN jiSetPos(jd, MapGet(m, JName(j))) ELSE jd

\* applyStatePos, lines 240-265
applyStatePos(pstr, jds) ==
    LET r == parseVals(Split(pstr, cPosJrnlSplit), 1, <<>>)
    IN  IF r.err # "nil" THEN [err |-> r.err, jDescs |-> jds]
        ELSE [err |-> "nil",
              jDescs |-> [j \in DOMAIN jds |-> setPosIfKnown(r.m, jds[j], j)]]

\* applyPos, lines 214-222
applyPos(pstr, jds) ==
    LET c == applyCornerPos(pstr, jds)
    IN  IF c.ok THEN [err |-> "nil", jDescs |-> c.jDescs]
        ELSE applyStatePos(pstr, jds)

\* newCursor, lines 86-143, over the journals js the tag index resolved
\* state.Sources to: one iterator per journal, the root iterator, applyPos
openCursor(js, state) ==
    LET len == Len(js)
        jds == [j \in 1..len |-> [j |-> js[j], it |-> newIterator]]
        r == applyPos(state.Pos, jds)
    IN  [NoCur EXCEPT !.status = IF r.err = "nil" THEN "ok" ELSE "err",
                      !.err = IF r.err = "nil" THEN "nil" ELSE "pos",
                      !.n = len, !.nsrcs = len, !.calls = len, !.iters = len,
                      !.mixers = IF len = 1 THEN 0 ELSE mixLoop(len, 0),
                      !.state = state,
                      !.it = rootIterator(len),
                      !.jDescs = r.jDescs,
                      !.fromHead = ToLower(state.Pos) \in {<<>>, StrHead}]

\* the event Get returns with the iterators as in jds
GetResult(it, jds) ==
    LET w == Winner(it, jds)
    IN  [NoOut EXCEPT !.err = IF w = 0 THEN "EOF" ELSE "nil",
                      !.j = w,
                      !.ts = IF w = 0 THEN 0 ELSE jds[w].j[jiSettled(jds[w])[2] + 1]]

\* Cursor.Get, lines 161-163: cur.it.Get(ctx)
CurGet ==
    /\ cur.status = "ok"
    /\ LET jds == [j \in DOMAIN cur.jDescs |-> jiGet(cur.jDescs[j])]
       IN  cur' = [cur EXCEPT !.jDescs = jds,
                              !.out = [GetResult(cur.it, jds) EXCEPT !.op = "Get"]]
    /\ UNCHANGED poolVars

\* Cursor.Next, lines 156-158: cur.it.Next(ctx) advances the iterator of the
\* journal whose record Get returns
CurNext ==
    /\ cur.status = "ok"
    /\ LET jds == [j \in DOMAIN cur.jDescs |-> jiGet(cur.jDescs[j])]
           res == GetResult(cur.it, jds)
       IN  cur' = [cur EXCEPT
                     !.jDescs = IF res.j = 0 THEN jds
                                ELSE [jds EXCEPT ![res.j] = jiNext(@)],
                     !.log = IF res.j # 0 /\ cur.fromHead
                             THEN Append(@, <<res.j, jiSettled(jds[res.j])[2], res.ts>>)
                             ELSE @,
                     !.out = [res EXCEPT !.op = "Next"]]
    /\ UNCHANGED poolVars

\* ------------------------------------------------------------------ reading
\* the records a journal can hold: their timestamps, in the order written
Contents == UNION {[1..k -> 1..MaxTs] : k \in 0..MaxRecs}

\* the Where expressions of the read scenario
Wheres == {0, MaxTs}

\* a pool nobody uses
PoolIdle ==
    /\ closed = 0
    /\ curSize = 0
    /\ sem = maxSize
    /\ semClosed = FALSE
    /\ cchanClosed = FALSE
    /\ frs = [c \in Cids |-> NoGroup]
    /\ rdr = [r \in Readers |-> NoRdr]
    /\ lock = LockFree
    /\ bgDone = FALSE
    /\ panicked = FALSE
    /\ pc = [p \in Procs |-> "idle"]
    /\ loc = [p \in Procs |-> NoLoc]
    /\ held = [p \in Procs |-> {}]
    /\ ret = NoRet

\* a cursor constructed at head over one journal or more, whatever they hold
ReadInit ==
    /\ PoolIdle
    /\ \E len \in 1..NumJournals :
         \E js \in [1..len -> Contents], where \in Wheres :
            cur = openCursor(js, [Id |-> 1, Sources |-> 1, Where |-> where,
                                  Pos |-> <<>>])

\* the client reads the cursor to the end
ReadNext ==
    \/ CurGet
    \/ CurNext

ReadSpec == ReadInit /\ [][ReadNext]_vars

\* -------------------------------------------------------------- positions
\* ApplyState, line 168, with the comparison of Id left out
sameQueryNoId(a, b) == a.Where = b.Where /\ a.Sources = b.Sources

\* ApplyState, line 168: the state is for the query of the cursor
sameQuery(a, b) == a.Where = b.Where /\ a.Sources = b.Sources /\ a.Id = b.Id

\* Cursor.ApplyState, lines 167-182
ApplyState(st) ==
    /\ cur.status = "ok"
    /\ cur' =
         IF ~sameQuery(cur.state, st)
         THEN [cur EXCEPT !.out = [NoOut EXCEPT !.op = "ApplyState", !.err = "state"]]
         ELSE IF cur.state.Pos # st.Pos
         THEN LET r == applyStatePos(st.Pos, cur.jDescs)
              IN  IF r.err # "nil"
                  THEN [cur EXCEPT !.out = [NoOut EXCEPT !.op = "ApplyState",
                                                         !.err = "pos"]]
                  ELSE [cur EXCEPT !.state.Pos = st.Pos,
                                   !.jDescs = r.jDescs,
                                   !.log = <<>>, !.fromHead = FALSE,
                                   !.out = [NoOut EXCEPT !.op = "ApplyState"]]
         ELSE [cur EXCEPT !.out = [NoOut EXCEPT !.op = "ApplyState"]]
    /\ UNCHANGED poolVars

\* collectPos with the Release of line 209 left out
collectKeep(jd) == jd

\* collectPos, line 209: jd.it.Release()
collectRelease(jd) == jiRelease(jd)

\* collectPos, lines 205-207: jn "=" jd.it.Pos().String()
collectEntry(jd, j) == JName(j) \o <<cPosJrnlVal>> \o PosString(jd.it.pos)

\* collectPos, lines 196-212: the entries of the journals in the order the map
\* of jDescs is ranged over, with ":" between them
RECURSIVE collectPos(_, _, _)
collectPos(jds, order, i) ==
    IF i > Len(order) THEN <<>>
    ELSE (IF i > 1 THEN <<cPosJrnlSplit>> ELSE <<>>)
            \o collectEntry(jds[order[i]], order[i])
            \o collectPos(jds, order, i + 1)

\* the orders a range over a map of n journals can take
Orders(n) == {o \in [1..n -> 1..n] : \A a, b \in 1..n : a # b => o[a] # o[b]}

\* Cursor.commit, lines 188-193: Get, collectPos, return cur.state
Commit(order) ==
    /\ cur.status = "ok"
    /\ order \in Orders(Len(cur.jDescs))
    /\ LET jds == [j \in DOMAIN cur.jDescs |-> jiGet(cur.jDescs[j])]
           st == [cur.state EXCEPT !.Pos = collectPos(jds, order, 1)]
       IN  cur' = [cur EXCEPT
                     !.state = st,
                     !.jDescs = [j \in DOMAIN jds |-> collectRelease(jds[j])],
                     !.log = <<>>, !.fromHead = FALSE,
                     !.last = [state |-> st,
                               mark |-> [j \in DOMAIN jds |-> jds[j].it.pos]],
                     !.out = [NoOut EXCEPT
                                !.op = "commit",
                                !.had = \E j \in DOMAIN cur.jDescs :
                                            cur.jDescs[j].it.held]]
    /\ UNCHANGED poolVars

\* newCursor, lines 66-143, with state st over the journals of the cursor at
\* hand; the client keeps the old cursor when the construction fails
Reopen(st) ==
    /\ cur.status = "ok"
    /\ sameQuery(cur.state, st)
    /\ LET c == openCursor([j \in DOMAIN cur.jDescs |-> cur.jDescs[j].j], st)
       IN  cur' = IF c.status = "ok"
                  THEN [c EXCEPT !.fromHead = FALSE, !.last = cur.last,
                                 !.out = [NoOut EXCEPT !.op = "newCursor"]]
                  ELSE [cur EXCEPT !.out = [NoOut EXCEPT !.op = "newCursor",
                                                         !.err = "pos"]]
    /\ UNCHANGED poolVars

\* the Pos strings clients send: the corner values in either case, maps with
\* entries of known and unknown journals, and strings that are no map
PosInputs ==
    { <<>>, StrHead, <<"H", "e", "A", "d">>, StrTail, <<"T", "A", "I", "L">>,
      <<"p", "=", "0", ".", "1">>,
      <<"q", "=", "0", ".", "1">>,
      <<"q", "=", "0", ".", "0", ":", "p", "=", "0", ".", "2">>,
      <<"p", "=", "F", ".", "F">>,
      <<"z", "=", "0", ".", "1">>,
      <<"z", "=", "0", ".", "1", ":", "p", "=", "0", ".", "0">>,
      <<"p">>, <<"p", "=", "x">>, <<"p", "=", "0", ".", "1", ":">> }

Ids == {1, 2}
SourceExprs == {1, 2}

\* the states a client applies or constructs a cursor with: the query of the
\* cursor with any of the above, another query, or the State the latest
\* commit returned
StateInputs(c) ==
    [Id : {c.state.Id}, Sources : {c.state.Sources}, Where : {c.state.Where},
     Pos : PosInputs]
        \cup [Id : Ids, Sources : SourceExprs, Where : Wheres,
              Pos : {<<"q", "=", "0", ".", "1">>}]
        \cup (IF c.last.mark # <<>> THEN {c.last.state} ELSE {})

\* journals of every length, the records written in the order of their ts
PosContents == {[i \in 1..k |-> i] : k \in 0..MaxRecs}

PosInit ==
    /\ PoolIdle
    /\ \E len \in 1..NumJournals :
         \E js \in [1..len -> PosContents] :
            cur = [openCursor(js, [Id |-> 1, Sources |-> 1, Where |-> 0,
                                   Pos |-> <<>>]) EXCEPT !.fromHead = FALSE]

PosNext ==
    \/ CurGet
    \/ CurNext
    \/ \E st \in StateInputs(cur) : ApplyState(st)
    \/ \E order \in Orders(Len(cur.jDescs)) : Commit(order)
    \/ \E st \in StateInputs(cur) : Reopen(st)

PosSpec == PosInit /\ [][PosNext]_vars


\* ---------------------------------------------------------------- claims
OpenReaders == {r \in Readers : rdr[r].open}
HeldBy(r) == {p \in Procs : r \in held[p]}
GroupOf(c) == {frs[c].rdrs[i] : i \in 1..Len(frs[c].rdrs)}

\* C1: in every reachable state the number of open fReaders is at most maxSize
C1_OpenAtMostMaxSize == Cardinality(OpenReaders) <= maxSize

\* C2: once Close has returned (closed is set and its critical section is
\* over) no fReader is open
C2_NoneOpenAfterClose == (closed # 0 /\ lock = LockFree) => OpenReaders = {}

\* C4: acquire never hands out a reader that some client still holds
C4_OneHolder ==
    [][\A p \in Procs : \A r \in held'[p] \ held[p] : HeldBy(r) = {}]_vars

\* C4 witness: a reader released earlier was handed out again by getFree while
\* the other client holds a reader of its own
C4_Witness ==
    /\ ret.op = "acquire" /\ ret.err = "nil" /\ ret.nfree >= 1
    /\ \E p, q \in Procs : p # q /\ ret.fr \in held[p] /\ held[q] # {}

\* C5: a step that leaves the group of a busy reader registered (every step but
\* clean(true) and releaseAllByCid of that group) leaves the reader in the
\* group, open, and busy unless its holder released it
C5_EvictionSparesBusy ==
    [][\A c \in Cids : \A r \in GroupOf(c) :
          (rdr[r].state = "busy" /\ Registered(c)')
          => /\ r \in GroupOf(c)'
             /\ rdr'[r].open
             /\ \/ rdr'[r].state = "busy"
                \/ /\ rdr'[r].state = "free"
                   /\ \E p \in Procs : r \in held[p] /\ r \notin held'[p]]_vars

\* C5 witness: clean(false) has just closed a free reader while a client holds a
\* busy reader of a group
C5_Witness ==
    /\ ret.op = "release" /\ ret.cnt > 0
    /\ \E p \in Procs, c \in Cids : \E r \in held[p] :
         r \in GroupOf(c) /\ rdr[r].state = "busy" /\ rdr[r].open

\* C6: an acquire that returns the ctx error returns no reader and its own net
\* effect on curSize is zero
C6_CancelKeepsCurSize ==
    (ret.op = "acquire" /\ ret.err = "ctx") => (ret.fr = NoReader /\ ret.delta = 0)

\* C7: an acquire during or after which Close ran returns ErrWrongState or the
\* ctx error, and no reader
C7_WrongStateAfterClose ==
    (ret.op = "acquire" /\ ret.sawClose)
    => (ret.err \in {"ErrWrongState", "ctx"} /\ ret.fr = NoReader)

\* C9: releaseAllByCid(c) closes every reader of the group of c, removes the
\* group, returns one permit per reader and leaves the other groups alone
C9_ReleaseAllByCid ==
    [][\A c \in Cids :
          (ret'.op = "releaseAllByCid" /\ ret'.cid = c /\ Registered(c))
          => /\ \A r \in GroupOf(c) : rdr'[r] = NoRdr
             /\ ~Registered(c)'
             /\ sem' = sem + Len(frs[c].rdrs)
             /\ \A d \in Cids \ {c} : frs'[d] = frs[d]]_vars

\* the indexes of the free readers of the group of cid c
FreeIdx(c) == {i \in 1..Len(frs[c].rdrs) : rdr[frs[c].rdrs[i]].state = "free"}

\* C3: a blocked acquire does not wait forever once a reader has been
\* released: whenever a client waits in the select of acquire while a reader
\* listed in the pool is free, the client eventually leaves the select
C3_BlockedAcquireReturns ==
    \A p \in Procs :
        (pc[p] = "acq_select" /\ \E c \in Cids : FreeIdx(c) # {})
            ~> (pc[p] # "acq_select")

\* the unsigned distance from the position of the i-th reader of c to off
DistAt(c, i, off) ==
    LET pos == rdr[frs[c].rdrs[i]].pos
    IN  IF pos >= off THEN pos - off ELSE off - pos

\* C8: an acquire on a group with a free reader returns, without creating a
\* reader, the free reader of the smallest unsigned distance to the offset, the
\* first in list order among equals; it goes on to open a reader only when the
\* group has no free reader
C8_ClosestFreeReader ==
    [][\A p \in Procs :
         /\ (pc[p] = "idle" /\ pc'[p] = "idle" /\ held'[p] # held[p]
                /\ held[p] \subseteq held'[p])
              => /\ FreeIdx(ret'.cid) # {}
                 /\ \E i \in FreeIdx(ret'.cid) :
                      /\ held'[p] \ held[p] = {frs[ret'.cid].rdrs[i]}
                      /\ \A j \in FreeIdx(ret'.cid) :
                           \/ DistAt(ret'.cid, i, ret'.off) < DistAt(ret'.cid, j, ret'.off)
                           \/ /\ DistAt(ret'.cid, i, ret'.off) = DistAt(ret'.cid, j, ret'.off)
                              /\ i <= j
                 /\ {r \in Readers : rdr'[r].open} = {r \in Readers : rdr[r].open}
         /\ (pc[p] = "idle" /\ pc'[p] = "acq_select") => FreeIdx(loc'[p].cid) = {}
      ]_vars

\* an acquire has just chosen among several free readers
C8_Witness ==
    /\ ret.op = "acquire"
    /\ ret.err = "nil"
    /\ ret.nfree >= 2
    /\ \E p \in Procs : ret.fr \in held[p]

\* C10 as stated: newCursor fails on 0 and on more than cMaxSources journals
\* before any GetOrCreate call, and with 1..cMaxSources journals it creates
\* exactly one iterator per journal
C10_OneIteratorPerJournal ==
    (cur.status # "none" /\ cur.err \notin {"parse", "journals"}) =>
        /\ (cur.n = 0) => (cur.err = "NoSources" /\ cur.calls = 0 /\ cur.iters = 0)
        /\ (cur.n > cMaxSources)
             => (cur.err = "TooManySources" /\ cur.calls = 0 /\ cur.iters = 0)
        /\ (cur.n = 0 \/ cur.n > cMaxSources) => (OpenReaders = {} /\ curSize = 0)
        /\ (cur.n \in 1..cMaxSources)
             => (cur.err \notin {"NoSources", "TooManySources"} /\ cur.iters = cur.n)

\* C10 amended: as stated, except that a GetOrCreate failure stops the
\* construction with one iterator for each journal before the failing one
C10_OneIteratorUnlessGetOrCreateFails ==
    (cur.status # "none" /\ cur.err \notin {"parse", "journals"}) =>
        /\ (cur.n = 0) => (cur.err = "NoSources" /\ cur.calls = 0 /\ cur.iters = 0)
        /\ (cur.n > cMaxSources)
             => (cur.err = "TooManySources" /\ cur.calls = 0 /\ cur.iters = 0)
        /\ (cur.n = 0 \/ cur.n > cMaxSources) => (OpenReaders = {} /\ curSize = 0)
        /\ (cur.n \in 1..cMaxSources)
             => /\ cur.err \notin {"NoSources", "TooManySources"}
                /\ IF cur.err = "GetOrCreate"
                   THEN cur.calls \in 1..cur.n /\ cur.iters = cur.calls - 1
                   ELSE cur.calls = cur.n /\ cur.iters = cur.n

\* a cursor over cMaxSources journals has been constructed
C10_Witness ==
    /\ cur.status = "ok"
    /\ cur.n = cMaxSources
    /\ cur.iters = cMaxSources
    /\ cur.mixers = cMaxSources - 1

\* C11: every event Get returns satisfies the predicate of state.Where
C11_GetAppliesWhere ==
    (cur.out.op = "Get" /\ cur.out.err = "nil")
        => WhereAccepts(cur.state.Where, cur.out.ts)

\* the iterator of jd reads on from position pos
ReadsFrom(jd, pos) == jiSettled(jd) = jiSettled(jiSetPos(jd, pos))

\* the position a Pos string that is a map says for journal j: the iterator of
\* a journal with an entry reads on from where the entry says
PosSays(pstr, jds, j) ==
    LET r == parseVals(Split(pstr, cPosJrnlSplit), 1, <<>>)
    IN  (r.err = "nil" /\ MapHas(r.m, JName(j)))
            => ReadsFrom(jds[j], MapGet(r.m, JName(j)))

\* C12: ApplyState is atomic: when it succeeds every journal iterator is where
\* the new Pos says, when it fails every iterator and cur.state.Pos are as
\* they were before the call
C12_ApplyStateAtomic ==
    [][cur'.out.op = "ApplyState" =>
         \A st \in StateInputs(cur) :
           ApplyState(st)
           => IF cur'.out.err = "nil"
              THEN \A j \in DOMAIN cur'.jDescs : PosSays(st.Pos, cur'.jDescs, j)
              ELSE cur'.jDescs = cur.jDescs /\ cur'.state.Pos = cur.state.Pos]_vars

\* C13: ApplyState with a state whose Id, Sources or Where is not the cursor's
\* returns an error and changes neither cur.state nor the position of an
\* iterator; with the three equal it does not fail on that account
C13_ApplyStateSameQuery ==
    [][cur'.out.op = "ApplyState" =>
         \A st \in StateInputs(cur) :
           ApplyState(st)
           => IF st.Id # cur.state.Id \/ st.Sources # cur.state.Sources
                   \/ st.Where # cur.state.Where
              THEN /\ cur'.out.err # "nil"
                   /\ cur'.state = cur.state
                   /\ cur'.jDescs = cur.jDescs
              ELSE cur'.out.err # "state"]_vars

\* ApplyState has refused a state for another query on a cursor that has read
\* a record
C13_Witness ==
    /\ cur.out.op = "ApplyState"
    /\ cur.out.err = "state"
    /\ \E j \in DOMAIN cur.jDescs : cur.jDescs[j].it.pos # PosHead

\* C14: the State commit returned, used to construct a new cursor over the
\* same journals or applied with ApplyState, puts every journal iterator where
\* commit collected its position, so that the record delivered next is the one
\* after the last record read before the commit
C14_PositionRoundTrip ==
    [][(cur.last.mark # <<>>
          /\ (ApplyState(cur.last.state) \/ Reopen(cur.last.state)))
       => \A j \in DOMAIN cur'.jDescs :
             ReadsFrom(cur'.jDescs[j], cur.last.mark[j])]_vars

\* the entries of a Pos string that is a per-journal map (<<>> when it is a
\* corner value or does not parse)
EntriesOf(pstr) ==
    LET r == parseVals(Split(pstr, cPosJrnlSplit), 1, <<>>)
    IN  IF ToLower(pstr) \in {<<>>, StrHead, StrTail} \/ r.err # "nil"
        THEN <<>> ELSE r.m

\* C15: when a per-journal map is applied, by newCursor or by ApplyState,
\* entries of journals the cursor does not have are ignored without error and
\* every journal of the cursor without an entry is positioned at head
C15_MissingJournalsAtHead ==
    [][\A st \in StateInputs(cur) :
          (EntriesOf(st.Pos) # <<>> /\ (ApplyState(st) \/ Reopen(st))
             /\ sameQuery(cur.state, st))
          => /\ cur'.out.err = "nil"
             /\ \A j \in DOMAIN cur'.jDescs :
                   ~MapHas(EntriesOf(st.Pos), JName(j))
                      => ReadsFrom(cur'.jDescs[j], PosHead)]_vars

\* the endpoint a corner value of Pos names: head, tail in any case, or ""
IsCorner(pstr) == ToLower(pstr) \in {<<>>, StrHead, StrTail}
CornerOf(pstr) == IF ToLower(pstr) = StrTail THEN PosTail ELSE PosHead

\* C16: when a Pos is applied, by newCursor or by ApplyState, "head" and
\* "tail" in any letter case and "" are accepted and every journal iterator is
\* at the endpoint: (0,0) for head and "", (0xFFFFFFFFFFFFFFFF, 0xFFFFFFFF)
\* for tail
C16_CornerPos ==
    [][\A st \in StateInputs(cur) :
          (IsCorner(st.Pos) /\ (ApplyState(st) \/ Reopen(st))
             /\ sameQuery(cur.state, st))
          => /\ cur'.out.err = "nil"
             /\ \A j \in DOMAIN cur'.jDescs :
                   cur'.jDescs[j].it.pos = CornerOf(st.Pos)]_vars

\* C17: after commit returns every journal iterator has been released, the
\* State returned has the Id, Sources and Where the cursor had, and its Pos
\* has exactly one entry per journal of the cursor
C17_CommitReleases ==
    [][cur'.out.op = "commit" =>
         LET vals == Split(cur'.last.state.Pos, cPosJrnlSplit)
         IN  /\ \A j \in DOMAIN cur'.jDescs : ~cur'.jDescs[j].it.held
             /\ cur'.last.state = cur'.state
             /\ cur'.state.Id = cur.state.Id
             /\ cur'.state.Sources = cur.state.Sources
             /\ cur'.state.Where = cur.state.Where
             /\ Len(vals) = Len(cur'.jDescs)
             /\ \A j \in DOMAIN cur'.jDescs :
                   Cardinality({i \in 1..Len(vals) :
                       Split(vals[i], cPosJrnlVal)[1] = JName(j)}) = 1]_vars

\* commit has returned on a cursor over several journals whose iterators held
\* file readers
C17_Witness ==
    /\ cur.out.op = "commit"
    /\ cur.out.had
    /\ Len(cur.jDescs) >= 2
    /\ \A j \in DOMAIN cur.jDescs : ~cur.jDescs[j].it.held

\* the events delivered so far are in non-decreasing order of ts, no record
\* has been delivered twice, and once Get or Next has met the end every record
\* of every journal has been delivered
DeliveredInOrder ==
    /\ \A a, b \in 1..Len(cur.log) : a < b => cur.log[a][3] <= cur.log[b][3]
    /\ \A a, b \in 1..Len(cur.log) :
          (a # b) => <<cur.log[a][1], cur.log[a][2]>> # <<cur.log[b][1], cur.log[b][2]>>
    /\ cur.out.err = "EOF"
         => \A j \in DOMAIN cur.jDescs : \A i \in 1..Len(cur.jDescs[j].j) :
               \E a \in 1..Len(cur.log) :
                   cur.log[a] = <<j, i - 1, cur.jDescs[j].j[i]>>

\* the records of a journal are in the order of their ts
SortedByTs(js) == \A i, k \in 1..Len(js) : i < k => js[i] <= js[k]

\* C18 as stated: the events a cursor over two journals or more delivers are
\* in non-decreasing order of ts, and every record of every journal is
\* delivered exactly once
C18_MergeMonotonic ==
    (cur.fromHead /\ Len(cur.jDescs) >= 2) => DeliveredInOrder

\* C18 amended: as stated, for journals each of which holds its records in
\* non-decreasing order of ts and none of which is written to during the read
C18_MergeOfSortedJournals ==
    (cur.fromHead /\ Len(cur.jDescs) >= 2
        /\ \A j \in DOMAIN cur.jDescs : SortedByTs(cur.jDescs[j].j))
    => DeliveredInOrder

\* a cursor over two sorted journals has delivered the records of both, those
\* of the second journal between those of the first, and has met the end
C18_Witness ==
    /\ cur.fromHead
    /\ Len(cur.jDescs) >= 2
    /\ \A j \in DOMAIN cur.jDescs : SortedByTs(cur.jDescs[j].j)
    /\ cur.out.err = "EOF"
    /\ Len(cur.log) >= 3
    /\ \E a, b, c \in 1..Len(cur.log) :
          a < b /\ b < c /\ cur.log[a][1] = 1 /\ cur.log[b][1] = 2 /\ cur.log[c][1] = 1

\* the Mixers in an iterator, the depth of its deepest leaf, and its parts
RECURSIVE MixersIn(_)
MixersIn(it) == IF Len(it) = 1 THEN 0 ELSE 1 + MixersIn(it[1]) + MixersIn(it[2])

RECURSIVE DepthOf(_)
DepthOf(it) ==
    IF Len(it) = 1 THEN 0
    ELSE 1 + (IF DepthOf(it[1]) >= DepthOf(it[2]) THEN DepthOf(it[1])
              ELSE DepthOf(it[2]))

RECURSIVE PartsOf(_)
PartsOf(it) ==
    IF Len(it) = 1 THEN {it} ELSE {it} \cup PartsOf(it[1]) \cup PartsOf(it[2])

\* the least k with 2^k >= n
RECURSIVE CeilLog2(_)
CeilLog2(n) == IF n <= 1 THEN 0 ELSE 1 + CeilLog2((n + 1) \div 2)

\* C19: for 1..cMaxSources journals the mixing loop of newCursor ends with one
\* root iterator whose leaves are the iterators of the journals, each of them
\* once: no Mixer for one journal, N-1 Mixers for N >= 2, neighbours paired, an
\* unpaired last iterator moved one level up, no leaf deeper than ceil(log2 N)
C19_MixerTree ==
    (cur.status = "ok" /\ cur.nsrcs \in 1..cMaxSources) =>
        /\ Leaves(cur.it) = [i \in 1..cur.nsrcs |-> i]
        /\ (cur.nsrcs = 1) => (cur.it = <<1>> /\ cur.mixers = 0)
        /\ MixersIn(cur.it) = cur.nsrcs - 1
        /\ cur.mixers = cur.nsrcs - 1
        /\ \A k \in 1..(cur.nsrcs \div 2) :
              <<<<2 * k - 1>>, <<2 * k>>>> \in PartsOf(cur.it)
        /\ (cur.nsrcs > 1 /\ cur.nsrcs % 2 = 1)
              => \E m \in PartsOf(cur.it) :
                    Len(m) = 2 /\ Len(m[1]) = 2 /\ m[2] = <<cur.nsrcs>>
        /\ DepthOf(cur.it) <= CeilLog2(cur.nsrcs)

\* a cursor over an odd number of journals, the last of them moved up at the
\* first level, has been constructed
C19_Witness ==
    /\ cur.status = "ok"
    /\ cur.nsrcs = cMaxSources - 1
    /\ Len(cur.it) = 2
    /\ DepthOf(cur.it) = CeilLog2(cMaxSources - 1)
    /\ MixersIn(cur.it) = cMaxSources - 2

\* the readers listed in the groups of the cids in S
RECURSIVE Listed(_)
Listed(S) ==
    IF S = {} THEN 0
    ELSE LET c == CHOOSE d \in S : TRUE
         IN  Len(frs[c].rdrs) + Listed(S \ {c})

\* the acquire calls that have taken a permit from sem and have not returned
PermitHolders == {p \in Procs : pc[p] \in {"acq_open", "acq_add"}}

\* C20: while the pool is not closed the permits in sem, the readers listed
\* in the groups and the acquire calls holding a permit add up to maxSize, and
\* freeSem is never stuck on a full channel with the mutex held
C20_PermitConservation ==
    (closed = 0)
    => /\ sem + Listed(Cids) + Cardinality(PermitHolders) = maxSize
       /\ lock # LockStuck

\* C21: every reader listed in the group of a cid was opened on the file name
\* the cid is registered with
C21_ReadersOfRegisteredName ==
    \A c \in Cids : \A r \in GroupOf(c) : rdr[r].fname = frs[c].fname

\* C22: of any number of Close calls the one that finds the pool open returns
\* nil and closes cchan and sem, every other returns ErrWrongState and closes
\* nothing; no channel is closed twice and no permit is sent on sem once it
\* is closed
C22_CloseOnce ==
    [][/\ ret'.op = "Close"
          => IF closed = 0
             THEN /\ ret'.err = "nil"
                  /\ closed' # 0
                  /\ ~cchanClosed /\ cchanClosed'
                  /\ ~semClosed /\ semClosed'
             ELSE /\ ret'.err = "ErrWrongState"
                  /\ UNCHANGED <<closed, cchanClosed, semClosed, sem>>
       /\ semClosed => sem' <= sem
       /\ ~panicked']_vars

====
